---- MODULE Spec2Model ----
(***************************************************************************)
(* Model of scripts/monitor.ts (the canonical, second variant of the       *)
(* scraper, lines 390-818): one invocation of main() against news.json.    *)
(* Strings that the code inspects character by character (titles) are      *)
(* sequences of one-character strings; URLs are opaque strings.            *)
(* scripts/archive-old-news.ts, the job that moves aged records from       *)
(* news.json to news-archive.json, is modelled beside it.                  *)
(***************************************************************************)
EXTENDS Integers, Sequences, FiniteSets, TLC

\* ---------------------------------------------------------------- bounds
MaxTargets == 2      \* longest --url list
MaxStore == 1        \* most records in news.json before the run
MaxItems == 2        \* most candidates submitted to the duplicate check in a run
MaxPosts == 2        \* most posts on the profile page at TimelineUrl
MaxOthers == 1       \* most writes of news.json by other processes during the run
MaxNews == 2         \* most records in news.json when the archival job starts

\* ------------------------------------------------------- program constants
MAX_RETRIES == 3
RETRY_DELAY_MS == 2000
TARGET_DELAY_MS == 1000
TWEET_TITLE_LIMIT == 100
SLUG_LIMIT == 50
ARCHIVE_DAYS == 30

\* ------------------------------------------------------------ characters
Whitespace == {" ", "\n", "\t"}

IsSpace(c) == c \in Whitespace

\* String.prototype.toLowerCase on one character
LowerChar(c) ==
  CASE c = "A" -> "a"
    [] c = "B" -> "b"
    [] OTHER -> c

toLowerCase(s) == [i \in 1..Len(s) |-> LowerChar(s[i])]

\* s.replace(/\s+/g, ' '): every maximal run of whitespace becomes one space
\* (the first character of a run becomes " ", the others, marked "", go)
IsKept(c) == c # ""

collapseWhitespace(s) ==
  SelectSeq([i \in 1..Len(s) |->
               IF IsSpace(s[i])
               THEN IF i > 1 /\ IsSpace(s[i - 1]) THEN "" ELSE " "
               ELSE s[i]],
            IsKept)

\* String.prototype.trim
RECURSIVE trimStart(_)
trimStart(s) ==
  IF s = <<>> THEN <<>>
  ELSE IF IsSpace(Head(s)) THEN trimStart(Tail(s)) ELSE s

RECURSIVE trimEnd(_)
trimEnd(s) ==
  IF s = <<>> THEN <<>>
  ELSE IF IsSpace(s[Len(s)]) THEN trimEnd(SubSeq(s, 1, Len(s) - 1)) ELSE s

trim(s) == trimEnd(trimStart(s))

\* createNewsItem: title.replace(/\s+/g, ' ').trim()
cleanTitle(title) == trim(collapseWhitespace(title))

\* Variant of tweetTitle that keeps the whole text
tweetTitleWhole(text) == text

\* text.slice(0, 100) + (text.length > 100 ? '...' : '')
tweetTitle(text) ==
  IF Len(text) > TWEET_TITLE_LIMIT
  THEN SubSeq(text, 1, TWEET_TITLE_LIMIT) \o <<".", ".", ".">>
  ELSE text

\* ------------------------------------------------------------ input data
\* Texts a page element or a post can carry (innerText): a plain title, the
\* same title in another case and with a run of whitespace, a title with
\* leading whitespace, and blank text.
Texts ==
  { <<"a", " ", "b">>,
    <<"A", " ", "\n", "b">>,
    <<" ", "b">>,
    <<" ">> }

\* Absolute links the pages carry.
Links == {"https://openai.com/news/1", "https://openai.com/news/2"}

\* Targets the run can be pointed at.
Urls == {"https://openai.com/news", "https://x.com/OpenAI", "https://example.org/blog"}

\* String.prototype.includes: needle occurs somewhere in url
includes(url, needle) ==
  \E i \in 1..(Len(url) - Len(needle) + 1) : SubSeq(url, i, i + Len(needle) - 1) = needle

DEFAULT_SELECTORS ==
  << [domain |-> "openai.com", selector |-> "h3, a[href*=\"/news/\"]"],
     [domain |-> "anthropic.com", selector |-> "[class*=\"title\"], h3"],
     [domain |-> "windsurf.com", selector |-> "h2"],
     [domain |-> "kiro.dev", selector |-> "h2"],
     [domain |-> "cursor.com", selector |-> "h2"],
     [domain |-> "antigravity.google", selector |-> "h3"],
     [domain |-> "developers.googleblog.com", selector |-> ".post-title"] >>

\* Sequences over S of length lo..hi
SeqsOf(S, lo, hi) == UNION { [1..n -> S] : n \in lo..hi }

\* ------------------------------------------------------------------ state
VARIABLES
  argv,          \* process.argv as parseArgs reads it: source, name, urls, selector,
                 \* bareUrl (the command line ends in --url, with no value after it)
  file,          \* news.json on disk: [kind, recs]
  file0,         \* news.json as it was when the process started
  pc,            \* position of main()
  exitCode,      \* process exit status; -1 while running
  existingNews,  \* main: existingNews
  newItems,      \* main: newItems
  addedCount,    \* main: addedCount
  skippedCount,  \* main: skippedCount
  results,       \* main: results
  browser,       \* main: browser ("null", "open", "closed")
  idx,           \* position of the for-of loop over args.urls (1-based)
  attempt,       \* scrapeWithRetry: attempt (0 outside the executor)
  attempts,      \* outcome of each call of fn in the current iteration: "threw", "null", "value"
  returned,      \* what scrapeWithRetry returned in the current iteration: "none" before it returns
  blocked,       \* console: the "Twitter scraping may be blocked" note of the current iteration
  slept,         \* milliseconds the last step spent in sleep()
  selector,      \* main: selector of the current iteration ("" when undefined)
  scrapedItems,  \* main: scrapedItems of the current iteration (<<>> when null)
  page,          \* the matched elements or posts the returning attempt found (<<>> otherwise)
  others,        \* what other processes wrote to news.json since this one started, in order
  total,         \* console: the count of the "Total items in news.json" line (-1 before it)
  kind,          \* main: currentSource of the target being scraped
  checked,       \* console: one "Added"/"Skipped duplicate" line per candidate
  failLog,       \* console: the "Attempt k/n failed" lines of the current iteration
  gaveUp,        \* targets for which scrapeWithRetry returned null after its last attempt
  stderr,        \* console.error lines of the store gateway and of main().catch
  summary,       \* console: the "Summary:" and "Scraping Results" lines were printed
  reads,         \* number of calls of readNewsJson
  writes,        \* number of calls of fs.writeFileSync on news.json
  archiveFile,   \* news-archive.json on disk: [kind, recs]
  archiveFile0,  \* news-archive.json as it was when the archival job started
  archivePc,     \* position of main() of archive-old-news.ts ("idle": not started)
  currentNews,   \* archive main: currentNews
  existingArchive, \* archive main: existingArchive
  written        \* the files the archival job has written, in order

vars == <<argv, file, file0, pc, exitCode, existingNews, newItems, addedCount,
          skippedCount, results, browser, idx, attempt, kind, checked, failLog,
          gaveUp, stderr, summary, reads, writes, attempts, returned, blocked,
          slept, selector, scrapedItems, page, others, total, archiveFile,
          archiveFile0, archivePc, currentNews, existingArchive, written>>

\* The state of the archival job
archiveVars == <<archiveFile, archiveFile0, archivePc, currentNews, existingArchive, written>>

\* ---------------------------------------------------------------- records
\* NewsItem; ids are opaque tokens, dates are abstract instants
NewsItem(id, source, title, date, url) ==
  [id |-> id, source |-> source, title |-> title, date |-> date, url |-> url]

\* I1: no two records with titles equal ignoring case, none with equal urls
StoreUnique(recs) ==
  \A i, j \in 1..Len(recs) :
    i # j => /\ toLowerCase(recs[i].title) # toLowerCase(recs[j].title)
             /\ recs[i].url # recs[j].url

\* The k-th record earlier runs have left behind
OldRecord(k) ==
  IF k % 2 = 1
  THEN NewsItem(<<"old", k>>, "OpenAI", <<"a", " ", "b">>, 0, "https://openai.com/news/1")
  ELSE NewsItem(<<"old", k>>, "OpenAI", <<"b">>, 0, "https://openai.com/news/2")

\* Stores the run can find: the first n of these records, in the order in
\* which earlier runs appended them
InitialStores ==
  { s \in UNION { [1..n -> { OldRecord(k) : k \in 1..MaxStore }] : n \in 1..MaxStore } :
      /\ \A i \in 1..Len(s) : s[i] = OldRecord(i)
      /\ StoreUnique(s) }

Sources == {"web", "twitter", "mixed"}

\* The locals of main before parseArgs has run
Locals ==
  /\ file0 = file
  /\ pc = "parseArgs"
  /\ exitCode = -1
  /\ existingNews = <<>>
  /\ newItems = <<>>
  /\ addedCount = 0
  /\ skippedCount = 0
  /\ results = <<>>
  /\ browser = "null"
  /\ idx = 1
  /\ attempt = 0
  /\ attempts = <<>>
  /\ returned = "none"
  /\ blocked = FALSE
  /\ slept = 0
  /\ selector = ""
  /\ scrapedItems = <<>>
  /\ page = <<>>
  /\ others = <<>>
  /\ total = -1
  /\ kind = ""
  /\ checked = <<>>
  /\ failLog = <<>>
  /\ gaveUp = {}
  /\ stderr = <<>>
  /\ summary = FALSE
  /\ reads = 0
  /\ writes = 0

\* No archival job runs: news-archive.json is absent and stays so
ArchiveIdle ==
  /\ archiveFile = [kind |-> "absent", recs |-> <<>>]
  /\ archiveFile0 = archiveFile
  /\ archivePc = "idle"
  /\ currentNews = <<>>
  /\ existingArchive = <<>>
  /\ written = <<>>

\* The state of a process that has not yet run parseArgs: news.json absent
\* or as earlier runs left it, the locals of main not yet assigned
Start ==
  /\ file \in { [kind |-> "absent", recs |-> <<>>] }
              \cup { [kind |-> "ok", recs |-> s] : s \in InitialStores }
  /\ Locals
  /\ ArchiveIdle

\* The command lines of the model: every mode, distinct targets, no
\* --selector; a wrong --source, a missing --name, a missing --url or a
\* --url without a value
Init ==
  /\ argv \in { a \in [source : Sources \cup {"rss"},
                       name : {"OpenAI", ""},
                       urls : { l \in SeqsOf(Urls, 0, MaxTargets) :
                                  \A i, j \in 1..Len(l) : i # j => l[i] # l[j] },
                       selector : {""},
                       bareUrl : BOOLEAN] :
                  a.bareUrl => a.urls = <<>> }
  /\ Start

\* Targets of single-target runs: the targets above, a twitter.com profile,
\* a host whose name ends in the letters of x.com, a page of another host
\* whose path mentions x.com, and a page of a table domain whose path
\* mentions an earlier table domain
TargetUrls ==
  Urls \cup { "https://twitter.com/OpenAI",
              "https://www.netflix.com/tudum",
              "https://example.org/x.com-rebrand",
              "https://cursor.com/blog/openai.com" }

\* The command lines of single-target runs: every mode, one target, with
\* and without --selector
TargetInit ==
  /\ argv \in [source : Sources,
               name : {"OpenAI"},
               urls : { <<u>> : u \in TargetUrls },
               selector : {"", ".headline"},
               bareUrl : {FALSE}]
  /\ Start

\* The record an earlier run admitted from a post of the profile at
\* TimelineUrl that had no status link
ProfileRecord ==
  NewsItem(<<"old", 0>>, "OpenAI", <<"b">>, 0, "https://x.com/AnthropicAI")

\* The record an earlier run admitted from a post of that profile whose
\* text was TWEET_TITLE_LIMIT times "a" and then "a": title and url as
\* main and createNewsItem build them
LongRecord ==
  NewsItem(<<"old", -1>>, "OpenAI",
           [i \in 1..(TWEET_TITLE_LIMIT + 3) |-> IF i <= TWEET_TITLE_LIMIT THEN "a" ELSE "."],
           0, "https://x.com/AnthropicAI/status/1")

\* The command lines of the runs over the markup page and over the profile
\* page: mixed mode, one target, --selector given; news.json absent or
\* holding ProfileRecord or LongRecord
PageInit ==
  /\ argv \in [source : {"mixed"},
               name : {"OpenAI"},
               urls : { <<"https://example.org/links">>, <<"https://x.com/AnthropicAI">> },
               selector : {".headline"},
               bareUrl : {FALSE}]
  /\ file \in { [kind |-> "absent", recs |-> <<>>],
                [kind |-> "ok", recs |-> <<ProfileRecord>>],
                [kind |-> "ok", recs |-> <<LongRecord>>] }
  /\ Locals
  /\ ArchiveIdle

\* ------------------------------------------------------- dedup and merge
\* Variant of isDuplicate that compares titles only
isDuplicateTitleOnly(news, title, url) ==
  \E i \in 1..Len(news) : toLowerCase(news[i].title) = toLowerCase(title)

isDuplicate(news, title, url) ==
  \E i \in 1..Len(news) :
    \/ toLowerCase(news[i].title) = toLowerCase(title)
    \/ news[i].url = url

\* Variant of createNewsItem that stores the title as the candidate carries it
createNewsItemRaw(source, title, url, n) ==
  NewsItem(<<"new", n>>, source, title, 1, url)

\* uuidv4() is a fresh token; new Date() is the instant of the run
createNewsItem(source, title, url, n) ==
  NewsItem(<<"new", n>>, source, cleanTitle(title), 1, url)

\* Variant of updatedNews that puts the admitted records first
updatedNewsNewFirst(existing, new) == new \o existing

\* [...existingNews, ...newItems]
updatedNews(existing, new) == existing \o new

\* Variant of admitOrSkip that does not count a rejected candidate
admitOrSkipUncounted(st, existing, source, title, url, target) ==
  LET dup == isDuplicate(updatedNews(existing, st.newItems), title, url)
      line == [title |-> title, url |-> url, admitted |-> ~dup,
               before |-> Len(st.newItems), target |-> target]
  IN IF ~dup
     THEN [newItems |-> Append(st.newItems,
                               createNewsItem(source, title, url, Len(st.newItems) + 1)),
           added |-> st.added + 1,
           skipped |-> st.skipped,
           checked |-> Append(st.checked, line)]
     ELSE [newItems |-> st.newItems,
           added |-> st.added,
           skipped |-> st.skipped,
           checked |-> Append(st.checked, line)]

\* Variant of admitOrSkip that also rejects what an earlier rejected candidate
\* of the run matches
admitOrSkipRemember(st, existing, source, title, url, target) ==
  LET dup == \/ isDuplicate(updatedNews(existing, st.newItems), title, url)
             \/ \E j \in 1..Len(st.checked) :
                  /\ ~st.checked[j].admitted
                  /\ \/ st.checked[j].url = url
                     \/ toLowerCase(st.checked[j].title) = toLowerCase(title)
      line == [title |-> title, url |-> url, admitted |-> ~dup,
               before |-> Len(st.newItems), target |-> target]
  IN IF ~dup
     THEN [newItems |-> Append(st.newItems,
                               createNewsItem(source, title, url, Len(st.newItems) + 1)),
           added |-> st.added + 1,
           skipped |-> st.skipped,
           checked |-> Append(st.checked, line)]
     ELSE [newItems |-> st.newItems,
           added |-> st.added,
           skipped |-> st.skipped + 1,
           checked |-> Append(st.checked, line)]

\* The locals the candidate loop updates, threaded through one candidate:
\*   if (!isDuplicate([...existingNews, ...newItems], title, url)) { push; addedCount++ }
\*   else { skippedCount++ }
admitOrSkip(st, existing, source, title, url, target) ==
  LET dup == isDuplicate(updatedNews(existing, st.newItems), title, url)
      line == [title |-> title, url |-> url, admitted |-> ~dup,
               before |-> Len(st.newItems), target |-> target]
  IN IF ~dup
     THEN [newItems |-> Append(st.newItems,
                               createNewsItem(source, title, url, Len(st.newItems) + 1)),
           added |-> st.added + 1,
           skipped |-> st.skipped,
           checked |-> Append(st.checked, line)]
     ELSE [newItems |-> st.newItems,
           added |-> st.added,
           skipped |-> st.skipped + 1,
           checked |-> Append(st.checked, line)]

\* const itemUrl = item.link || url ("" is null)
itemUrl(link, url) == IF link # "" THEN link ELSE url

\* Variant of mergeItems that submits the items last to first
RECURSIVE mergeItemsReverse(_, _, _, _, _, _)
mergeItemsReverse(items, i, st, existing, source, target) ==
  IF i > Len(items) THEN st
  ELSE mergeItemsReverse(items, i + 1,
                         admitOrSkip(st, existing, source, items[Len(items) + 1 - i].text,
                                     itemUrl(items[Len(items) + 1 - i].link, argv.urls[target]),
                                     target),
                         existing, source, target)

\* for (const item of scrapedItems) { ... } over the items of target
RECURSIVE mergeItems(_, _, _, _, _, _)
mergeItems(items, i, st, existing, source, target) ==
  IF i > Len(items) THEN st
  ELSE mergeItems(items, i + 1,
                  admitOrSkip(st, existing, source, items[i].text,
                              itemUrl(items[i].link, argv.urls[target]), target),
                  existing, source, target)

\* --------------------------------------------------------------- scraping
\* The characters \w matches, among the characters of the model
WordChars == {"a", "b", "A", "B", "_", "0", "4"}

KeptInSlug(c) == c \in WordChars \/ c = "-"

\* s.replace(/\-\-+/g, '-'): every run of two or more hyphens becomes one
RECURSIVE CollapseHyphensFrom(_, _)
CollapseHyphensFrom(s, i) ==
  IF i > Len(s) THEN <<>>
  ELSE IF s[i] = "-" /\ i > 1 /\ s[i - 1] = "-"
       THEN CollapseHyphensFrom(s, i + 1)
       ELSE <<s[i]>> \o CollapseHyphensFrom(s, i + 1)

\* slugify: lower case, trim, runs of whitespace to "-", everything but word
\* characters and "-" removed, runs of "-" to one, at most SLUG_LIMIT characters
slugify(text) ==
  LET lowered == trim(toLowerCase(text))
      spaced == collapseWhitespace(lowered)
      hyphened == [i \in 1..Len(spaced) |-> IF IsSpace(spaced[i]) THEN "-" ELSE spaced[i]]
      worded == SelectSeq(hyphened, KeptInSlug)
      single == CollapseHyphensFrom(worded, 1)
  IN SubSeq(single, 1, IF Len(single) < SLUG_LIMIT THEN Len(single) ELSE SLUG_LIMIT)

\* The characters of a title as one string
RECURSIVE concat(_)
concat(chars) == IF chars = <<>> THEN "" ELSE Head(chars) \o concat(Tail(chars))

\* hrefs new URL() rejects whatever the base
InvalidHrefs == {"http://["}

\* new URL(url).origin: scheme, "://" and host
originOf(url) ==
  LET start == CHOOSE i \in 1..Len(url) : SubSeq(url, i, i + 2) = "://"
      stops == { j \in (start + 3)..Len(url) : SubSeq(url, j, j) = "/" }
      last == IF stops = {} THEN Len(url)
              ELSE (CHOOSE j \in stops : \A k \in stops : j <= k) - 1
  IN SubSeq(url, 1, last)

\* new URL(url): url up to and including the last "/" of its path
directoryOf(url) ==
  LET origin == originOf(url)
      slashes == { j \in (Len(origin) + 1)..Len(url) : SubSeq(url, j, j) = "/" }
  IN IF slashes = {} THEN origin \o "/"
     ELSE SubSeq(url, 1, CHOOSE j \in slashes : \A k \in slashes : k <= j)

\* Variant of resolveLink that hands back the href it could not resolve
resolveLinkRaw(link, base) ==
  IF link \in InvalidHrefs THEN link
  ELSE IF includes(link, "://") THEN link
  ELSE IF SubSeq(link, 1, 1) = "/" THEN originOf(base) \o link
  ELSE directoryOf(base) \o link

\* try { link = new URL(link, base).toString() } catch (e) { link = null }
\* for an absolute, a root-relative and a path-relative href; "" is null
resolveLink(link, base) ==
  IF link \in InvalidHrefs THEN ""
  ELSE IF includes(link, "://") THEN link
  ELSE IF SubSeq(link, 1, 1) = "/" THEN originOf(base) \o link
  ELSE directoryOf(base) \o link

\* Variant of slugLink that ignores the title
slugLinkBare(url, text) == url \o "#"

\* `${url}#${slugify(text.trim())}`
slugLink(url, text) == url \o "#" \o concat(slugify(trim(text)))

\* scrapeWeb, the link of one element: its own href, else the href of the
\* first a[href] inside it; resolved against the page; else the element's id,
\* else the slug of its text, as a fragment of the page url
elementLink(e, url) ==
  LET link == IF e.href # "" THEN e.href ELSE e.inner
      resolved == IF link # "" THEN resolveLink(link, url) ELSE ""
  IN IF resolved # "" THEN resolved
     ELSE IF e.id # "" THEN url \o "#" \o e.id
     ELSE slugLink(url, e.text)

\* What a matched element exposes to the page handle: innerText, its own href
\* attribute, the href of the closest enclosing anchor, the href of the first
\* a[href] inside it and its id ("" where it has none)
Elements ==
  [text : Texts, href : Links, ancestor : {""}, inner : {""}, id : {""}]

\* Titles over SLUG_LIMIT characters long that differ in their last character only
LongText(c) == [i \in 1..(SLUG_LIMIT + 1) |-> IF i <= SLUG_LIMIT THEN "a" ELSE c]

MarkupUrl == "https://example.org/links"

Element(text, href, ancestor, inner, id) ==
  [text |-> text, href |-> href, ancestor |-> ancestor, inner |-> inner, id |-> id]

\* Elements of the page at MarkupUrl. One title alone, with one of: a
\* relative href, an unparseable href, an enclosing anchor, an inner anchor,
\* an id; and with an href or an enclosing anchor next to an inner anchor, or
\* an unparseable href next to an id. Without any of them: a title that
\* differs from the first in punctuation only, the two long titles, and
\* blank text. The text of an error page, with a relative href. A title
\* with a run of whitespace.
MarkupElements ==
  { Element(<<"b">>, "", "", "", ""),
    Element(<<"b">>, "/news/1", "", "", ""),
    Element(<<"b">>, "http://[", "", "", ""),
    Element(<<"b">>, "", "/news/3", "", ""),
    Element(<<"b">>, "", "", "news/2", ""),
    Element(<<"b">>, "", "", "", "top"),
    Element(<<"b">>, "/news/1", "", "news/2", ""),
    Element(<<"b">>, "http://[", "", "news/2", ""),
    Element(<<"b">>, "", "/news/3", "news/2", ""),
    Element(<<"b">>, "http://[", "", "", "top"),
    Element(<<"b", "!">>, "", "", "", ""),
    Element(LongText("a"), "", "", "", ""),
    Element(LongText("b"), "", "", "", ""),
    Element(<<" ">>, "", "", "", ""),
    Element(<<"4", "0", "4">>, "/news/1", "", "", ""),
    Element(<<"A", " ", "\n", "b">>, "", "", "", "") }

ElementsAt(url) == IF url = MarkupUrl THEN MarkupElements ELSE Elements

IsBlank(text) == text = <<>> \/ trim(text) = <<>>

\* scrapeWeb: elements whose text is blank are dropped, the others keep
\* their document order with the text trimmed
RECURSIVE scrapeWeb(_, _)
scrapeWeb(elements, url) ==
  IF elements = <<>> THEN <<>>
  ELSE LET e == Head(elements)
       IN IF ~IsBlank(e.text)
          THEN <<[text |-> trim(e.text), link |-> elementLink(e, url)]>>
               \o scrapeWeb(Tail(elements), url)
          ELSE scrapeWeb(Tail(elements), url)

\* What a post of a profile page exposes: the text of its tweetText, the href
\* of its first status link ("" when it has none) and whether it carries the
\* "Pinned" label
Posts ==
  [text : Texts, href : {"/OpenAI/status/1", ""}, pinned : {FALSE}]

\* Posts of the page at TimelineUrl: pinned or not, with or without a status link
TimelineUrl == "https://x.com/AnthropicAI"

\* Post texts one character over TWEET_TITLE_LIMIT that differ in their
\* last character only
LongPost(c) ==
  [i \in 1..(TWEET_TITLE_LIMIT + 1) |-> IF i <= TWEET_TITLE_LIMIT THEN "a" ELSE c]

TimelinePosts ==
  [text : {<<"a", " ", "b">>, <<"b">>}, href : {"/AnthropicAI/status/2", ""},
   pinned : BOOLEAN]
  \cup [text : {LongPost("a"), LongPost("b")}, href : {"/AnthropicAI/status/2", ""},
        pinned : {FALSE}]

\* Timelines a profile page can show, first post first
TimelinesAt(url) ==
  IF url = TimelineUrl THEN SeqsOf(TimelinePosts, 1, MaxPosts) ELSE SeqsOf(Posts, 1, 1)

\* Variant of selectTweet that always takes the first post
selectTweetFirst(timeline) == timeline[1]

\* page.$ of the pinned tweet, else page.$ of any tweet: the first match in
\* document order
selectTweet(timeline) ==
  IF \E i \in 1..Len(timeline) : timeline[i].pinned
  THEN timeline[CHOOSE i \in 1..Len(timeline) :
                  /\ timeline[i].pinned
                  /\ \A j \in 1..(i - 1) : ~timeline[j].pinned]
  ELSE timeline[1]

\* scrapeTwitter, past the waits, for a post with text: link is the resolved
\* status link, else the input url
scrapeTwitter(timeline, url) ==
  LET post == selectTweet(timeline)
      link == IF post.href # "" THEN resolveLink(post.href, "https://x.com") ELSE ""
  IN [text |-> post.text, link |-> IF link # "" THEN link ELSE url]

\* main: classification of one target
currentSource(source, url) ==
  IF source = "mixed"
  THEN IF includes(url, "twitter.com") \/ includes(url, "x.com") THEN "twitter" ELSE "web"
  ELSE source

\* Variant of defaultSelector without the break: the last matching entry wins
RECURSIVE defaultSelectorLast(_, _)
defaultSelectorLast(url, i) ==
  IF i > Len(DEFAULT_SELECTORS) THEN ""
  ELSE LET later == defaultSelectorLast(url, i + 1)
       IN IF later # "" THEN later
          ELSE IF includes(url, DEFAULT_SELECTORS[i].domain)
               THEN DEFAULT_SELECTORS[i].selector
               ELSE ""

\* main: first table entry whose domain the url includes, "" when there is none
RECURSIVE defaultSelector(_, _)
defaultSelector(url, i) ==
  IF i > Len(DEFAULT_SELECTORS) THEN ""
  ELSE IF includes(url, DEFAULT_SELECTORS[i].domain)
       THEN DEFAULT_SELECTORS[i].selector
       ELSE defaultSelector(url, i + 1)

\* Variant of selectorFor that falls back to a generic selector
selectorForFallback(explicit, url) ==
  IF explicit # "" THEN explicit
  ELSE IF defaultSelector(url, 1) # "" THEN defaultSelector(url, 1) ELSE "h2"

\* let selector = args.selector; if (!selector) { table lookup }
selectorFor(explicit, url) ==
  IF explicit # "" THEN explicit ELSE defaultSelector(url, 1)

\* Variant of ScrapedResult that reports a target without content as an error
ScrapedResultFlagged(url, source, hasContent, content, error) ==
  [url |-> url, source |-> source, hasContent |-> hasContent,
   content |-> content,
   error |-> IF error = "" /\ ~hasContent THEN "No content" ELSE error]

\* ScrapedResult; content is the list of texts that the code joins with ' | '
ScrapedResult(url, source, hasContent, content, error) ==
  [url |-> url, source |-> source, hasContent |-> hasContent,
   content |-> content, error |-> error]

\* ---------------------------------------------------------------- actions
Terminated == pc \in {"done", "aborted", "exited"}

\* parseArgs: the three validations, each ending in process.exit(1)
argsValid(a) ==
  /\ a.source \in Sources
  /\ a.name # ""
  /\ a.urls # <<>>

\* The switch loop runs before the validations: for a trailing --url,
\* args[++i] is undefined and .split throws a TypeError, which rejects
\* main(); main().catch(console.error) prints it and the process ends with
\* status 0
parseArgs ==
  /\ pc = "parseArgs"
  /\ IF argv.bareUrl
     THEN /\ pc' = "exited"
          /\ exitCode' = 0
          /\ stderr' = Append(stderr, "TypeError")
     ELSE IF argsValid(argv)
          THEN /\ pc' = "readNewsJson"
               /\ UNCHANGED <<exitCode, stderr>>
          ELSE /\ pc' = "exited"
               /\ exitCode' = 1
               /\ stderr' = stderr
  /\ slept' = 0
  /\ UNCHANGED <<archiveVars, others, total, gaveUp, argv, file, file0, existingNews, newItems, addedCount, skippedCount,
                 results, browser, idx, attempt, kind, checked, failLog,
                 summary, reads, writes, attempts, returned, blocked, selector, scrapedItems, page>>

\* readNewsJson: an absent file and a failed read both give []
readNewsJson ==
  /\ pc = "readNewsJson"
  /\ reads' = reads + 1
  /\ \/ /\ file.kind = "absent"
        /\ existingNews' = <<>>
        /\ stderr' = stderr
     \/ /\ file.kind = "ok"
        /\ existingNews' = file.recs
        /\ stderr' = stderr
     \/ /\ file.kind # "absent"      \* readFileSync or JSON.parse throws
        /\ existingNews' = <<>>
        /\ stderr' = Append(stderr, "Error reading news.json")
  /\ pc' = "launch"
  /\ slept' = 0
  /\ UNCHANGED <<archiveVars, others, total, gaveUp, argv, file, file0, exitCode, newItems, addedCount, skippedCount,
                 results, browser, idx, attempt, kind, checked, failLog, summary, writes,
                 attempts, returned, blocked, selector, scrapedItems, page>>

\* A rejection of main(): main().catch(console.error) prints it and the
\* process ends with status 0
uncaught(b) ==
  /\ pc' = "aborted"
  /\ exitCode' = 0
  /\ browser' = b

\* chromium.launch / newContext / newPage, with the finally block when they throw
launch ==
  /\ pc = "launch"
  /\ \/ /\ browser' = "open"
        /\ pc' = "loop"
        /\ UNCHANGED <<exitCode, stderr>>
     \/ /\ uncaught("null")                 \* chromium.launch throws
        /\ stderr' = Append(stderr, "launch failed")
     \/ /\ uncaught("closed")               \* newContext/newPage throws
        /\ stderr' = Append(stderr, "launch failed")
  /\ slept' = 0
  /\ UNCHANGED <<archiveVars, others, total, gaveUp, argv, file, file0, existingNews, newItems, addedCount, skippedCount,
                 results, idx, attempt, kind, checked, failLog, summary, reads, writes,
                 attempts, returned, blocked, selector, scrapedItems, page>>

\* Variant of loopDone that leaves the loop after the first target
loopDoneAfterFirst(i, urls) == i > 1

\* for (const url of args.urls): the loop is over when every url was taken
loopDone(i, urls) == i > Len(urls)

\* Head of one iteration: classification, selector lookup, the
\* missing-selector `continue`
beginTarget ==
  /\ pc = "loop"
  /\ ~loopDone(idx, argv.urls)
  /\ LET url == argv.urls[idx]
         src == currentSource(argv.source, url)
     IN IF src = "twitter"
        THEN /\ kind' = "twitter"
             /\ selector' = ""
             /\ attempt' = 1
             /\ pc' = "scrape"
             /\ UNCHANGED <<results, idx>>
        ELSE /\ selector' = selectorFor(argv.selector, url)
             /\ IF selector' = ""
                THEN /\ results' = Append(results,
                                     ScrapedResult(url, src, FALSE, <<>>, "Missing selector"))
                     /\ idx' = idx + 1
                     /\ UNCHANGED <<kind, attempt, pc>>
                ELSE /\ kind' = "web"
                     /\ attempt' = 1
                     /\ pc' = "scrape"
                     /\ UNCHANGED <<results, idx>>
  /\ slept' = 0
  /\ UNCHANGED <<archiveVars, others, total, gaveUp, argv, file, file0, exitCode, existingNews, newItems, addedCount,
                 skippedCount, browser, checked, failLog, stderr, summary, reads, writes,
                 attempts, returned, blocked, scrapedItems, page>>

\* Variant of backoffDelay without the exponential growth
backoffDelayFixed(k) == RETRY_DELAY_MS

\* RETRY_DELAY_MS * Math.pow(2, attempt - 1)
backoffDelay(k) == RETRY_DELAY_MS * 2 ^ (k - 1)

\* Variant of hasNextAttempt that allows one attempt more
hasNextAttemptOneMore(k, retries) == k <= retries

\* for (...; attempt <= retries; attempt++): another attempt follows attempt k
hasNextAttempt(k, retries) == k + 1 <= retries

\* Variant of webAttemptFails in which the last failed attempt is rethrown
\* out of the executor and rejects main()
webAttemptFailsRethrow ==
  /\ pc = "scrape"
  /\ kind = "web"
  /\ attempts' = Append(attempts, "threw")
  /\ slept' = IF attempt < MAX_RETRIES THEN backoffDelay(attempt) ELSE 0
  /\ failLog' = Append(failLog, [target |-> idx, attempt |-> attempt, slept |-> slept'])
  /\ IF hasNextAttempt(attempt, MAX_RETRIES)
     THEN /\ attempt' = attempt + 1
          /\ UNCHANGED <<pc, results, gaveUp, exitCode, browser, returned>>
     ELSE /\ attempt' = 0
          /\ returned' = "none"
          /\ gaveUp' = gaveUp \cup {idx}
          /\ results' = results
          /\ uncaught("closed")
  /\ UNCHANGED <<archiveVars, others, total, argv, file, file0, existingNews, newItems, addedCount,
                 skippedCount, idx, kind, checked, stderr, summary,
                 reads, writes, blocked, selector, scrapedItems, page>>

\* scrapeWithRetry, one attempt of scrapeWeb that throws (goto or
\* waitForSelector): back off and retry, or give up with null; main then
\* pushes the result with content null
webAttemptFails ==
  /\ pc = "scrape"
  /\ kind = "web"
  /\ attempts' = Append(attempts, "threw")
  /\ slept' = IF attempt < MAX_RETRIES THEN backoffDelay(attempt) ELSE 0
  /\ failLog' = Append(failLog, [target |-> idx, attempt |-> attempt, slept |-> slept'])
  /\ IF hasNextAttempt(attempt, MAX_RETRIES)
     THEN /\ attempt' = attempt + 1
          /\ UNCHANGED <<pc, results, gaveUp, returned>>
     ELSE /\ attempt' = 0
          /\ returned' = "null"
          /\ gaveUp' = gaveUp \cup {idx}
          /\ results' = Append(results,
                          ScrapedResult(argv.urls[idx], kind, FALSE, <<>>, ""))
          /\ pc' = "sleep"
  /\ UNCHANGED <<archiveVars, others, total, argv, file, file0, exitCode, existingNews, newItems, addedCount,
                 skippedCount, browser, idx, kind, checked, stderr, summary,
                 reads, writes, blocked, selector, scrapedItems, page>>

\* Variant of webAttemptReturns in which only a first attempt delivers its
\* items to the duplicate check; what a later attempt returns is dropped
webAttemptReturnsFirstOnly ==
  /\ pc = "scrape"
  /\ kind = "web"
  /\ \E elements \in SeqsOf(ElementsAt(argv.urls[idx]), 0, MaxItems - Len(checked)) :
       /\ page' = elements
       /\ scrapedItems' = scrapeWeb(elements, argv.urls[idx])
  /\ LET st == mergeItems(IF attempt = 1 THEN scrapedItems' ELSE <<>>, 1,
                          [newItems |-> newItems, added |-> addedCount,
                           skipped |-> skippedCount, checked |-> checked],
                          existingNews, argv.name, idx)
     IN /\ newItems' = st.newItems
        /\ addedCount' = st.added
        /\ skippedCount' = st.skipped
        /\ checked' = st.checked
  /\ results' = Append(results,
                  ScrapedResult(argv.urls[idx], kind, Len(scrapedItems') > 0,
                                [i \in 1..Len(scrapedItems') |-> scrapedItems'[i].text],
                                ""))
  /\ attempts' = Append(attempts, "value")
  /\ returned' = "value"
  /\ attempt' = 0
  /\ slept' = 0
  /\ pc' = "sleep"
  /\ UNCHANGED <<archiveVars, others, total, gaveUp, argv, file, file0, exitCode, existingNews, browser, idx, kind,
                 failLog, stderr, summary, reads, writes, blocked, selector>>

\* scrapeWithRetry, one attempt of scrapeWeb that returns; main submits the
\* items to the duplicate check and pushes the result
webAttemptReturns ==
  /\ pc = "scrape"
  /\ kind = "web"
  /\ \E elements \in SeqsOf(ElementsAt(argv.urls[idx]), 0, MaxItems - Len(checked)) :
       /\ page' = elements
       /\ scrapedItems' = scrapeWeb(elements, argv.urls[idx])
  /\ LET st == mergeItems(scrapedItems', 1,
                          [newItems |-> newItems, added |-> addedCount,
                           skipped |-> skippedCount, checked |-> checked],
                          existingNews, argv.name, idx)
     IN /\ newItems' = st.newItems
        /\ addedCount' = st.added
        /\ skippedCount' = st.skipped
        /\ checked' = st.checked
  /\ results' = Append(results,
                  ScrapedResult(argv.urls[idx], kind, Len(scrapedItems') > 0,
                                [i \in 1..Len(scrapedItems') |-> scrapedItems'[i].text],
                                ""))
  /\ attempts' = Append(attempts, "value")
  /\ returned' = "value"
  /\ attempt' = 0
  /\ slept' = 0
  /\ pc' = "sleep"
  /\ UNCHANGED <<archiveVars, others, total, gaveUp, argv, file, file0, exitCode, existingNews, browser, idx, kind,
                 failLog, stderr, summary, reads, writes, blocked, selector>>

\* scrapeWithRetry around scrapeTwitter: scrapeTwitter catches everything it
\* throws (a goto or waitForSelector timeout included), prints the note and
\* returns null; it also returns null when the post has no text; so the
\* first attempt always returns
twitterAttemptReturns ==
  /\ pc = "scrape"
  /\ kind = "twitter"
  /\ \/ /\ blocked' \in {TRUE, FALSE}     \* TRUE: the catch block ran
        /\ attempts' = Append(attempts, "null")
        /\ returned' = "null"
        /\ results' = Append(results,
                        ScrapedResult(argv.urls[idx], kind, FALSE, <<>>, ""))
        /\ page' = <<>>
        /\ UNCHANGED <<newItems, addedCount, skippedCount, checked>>
     \/ /\ Len(checked) < MaxItems
        /\ blocked' = blocked
        /\ attempts' = Append(attempts, "value")
        /\ returned' = "value"
        /\ \E timeline \in TimelinesAt(argv.urls[idx]) :
             LET scrapeResult == scrapeTwitter(timeline, argv.urls[idx])
                 st == admitOrSkip([newItems |-> newItems, added |-> addedCount,
                                    skipped |-> skippedCount, checked |-> checked],
                                   existingNews, argv.name,
                                   tweetTitle(scrapeResult.text),
                                   itemUrl(scrapeResult.link, argv.urls[idx]), idx)
             IN /\ page' = timeline
                /\ newItems' = st.newItems
                /\ addedCount' = st.added
                /\ skippedCount' = st.skipped
                /\ checked' = st.checked
                /\ results' = Append(results,
                                ScrapedResult(argv.urls[idx], kind, TRUE,
                                              <<scrapeResult.text>>, ""))
  /\ attempt' = 0
  /\ slept' = 0
  /\ pc' = "sleep"
  /\ UNCHANGED <<archiveVars, others, total, gaveUp, argv, file, file0, exitCode, existingNews, browser, idx, kind,
                 failLog, stderr, summary, reads, writes, selector, scrapedItems>>

\* await sleep(1000) at the end of an iteration; the console lines and the
\* locals of the iteration are dropped
sleepBetweenTargets ==
  /\ pc = "sleep"
  /\ slept' = TARGET_DELAY_MS
  /\ idx' = idx + 1
  /\ pc' = "loop"
  /\ failLog' = <<>>
  /\ attempts' = <<>>
  /\ returned' = "none"
  /\ blocked' = FALSE
  /\ scrapedItems' = <<>>
  /\ page' = <<>>
  /\ UNCHANGED <<archiveVars, others, total, gaveUp, argv, file, file0, exitCode, existingNews, newItems, addedCount,
                 skippedCount, results, browser, attempt, kind, checked,
                 stderr, summary, reads, writes, selector>>

\* finally { if (browser) await browser.close() }
closeBrowser ==
  /\ pc = "loop"
  /\ loopDone(idx, argv.urls)
  /\ \/ /\ browser' = "closed"
        /\ pc' = "write"
        /\ UNCHANGED <<exitCode, stderr>>
     \/ /\ uncaught("open")                 \* browser.close() throws
        /\ stderr' = Append(stderr, "close failed")
  /\ slept' = 0
  /\ UNCHANGED <<archiveVars, others, total, gaveUp, argv, file, file0, existingNews, newItems, addedCount, skippedCount,
                 results, idx, attempt, kind, checked, failLog, summary, reads, writes,
                 attempts, returned, blocked, selector, scrapedItems, page>>

\* Variant of shouldWrite that writes on every run
shouldWriteAlways(new) == TRUE

\* if (newItems.length > 0)
shouldWrite(new) == Len(new) > 0

\* Variant of writeAndReport that returns without the summary when nothing
\* was admitted
writeAndReportQuiet ==
  /\ pc = "write"
  /\ IF shouldWrite(newItems)
     THEN /\ writes' = writes + 1
          /\ \/ /\ file' = [kind |-> "ok", recs |-> updatedNews(existingNews, newItems)]
                /\ summary' = TRUE
                /\ total' = Len(updatedNews(existingNews, newItems))
                /\ pc' = "done"
                /\ exitCode' = 0
                /\ stderr' = stderr
             \/ /\ file' \in {file, [kind |-> "corrupt", recs |-> <<>>]}
                /\ summary' = summary
                /\ total' = total
                /\ pc' = "aborted"
                /\ exitCode' = 0
                /\ stderr' = Append(stderr, "Error writing news.json")
     ELSE /\ summary' = summary
          /\ total' = total
          /\ pc' = "done"
          /\ exitCode' = 0
          /\ UNCHANGED <<file, writes, stderr>>
  /\ slept' = 0
  /\ UNCHANGED <<archiveVars, others, gaveUp, argv, file0, existingNews, newItems, addedCount, skippedCount,
                 results, browser, idx, attempt, kind, checked, failLog, reads,
                 attempts, returned, blocked, selector, scrapedItems, page>>

\* Variant of writeAndReport that reads news.json again and appends to what
\* it finds
writeAndReportReread ==
  /\ pc = "write"
  /\ IF shouldWrite(newItems)
     THEN /\ writes' = writes + 1
          /\ \/ /\ file' = [kind |-> "ok", recs |-> updatedNews(file.recs, newItems)]
                /\ summary' = TRUE
                /\ total' = Len(updatedNews(file.recs, newItems))
                /\ pc' = "done"
                /\ exitCode' = 0
                /\ stderr' = stderr
             \/ /\ file' \in {file, [kind |-> "corrupt", recs |-> <<>>]}
                /\ summary' = summary
                /\ total' = total
                /\ pc' = "aborted"
                /\ exitCode' = 0
                /\ stderr' = Append(stderr, "Error writing news.json")
     ELSE /\ summary' = TRUE
          /\ total' = Len(existingNews)
          /\ pc' = "done"
          /\ exitCode' = 0
          /\ UNCHANGED <<file, writes, stderr>>
  /\ slept' = 0
  /\ UNCHANGED <<archiveVars, others, gaveUp, argv, file0, existingNews, newItems, addedCount, skippedCount,
                 results, browser, idx, attempt, kind, checked, failLog, reads,
                 attempts, returned, blocked, selector, scrapedItems, page>>

\* The tail of main: the write when something was admitted, then the summary.
\* A writeFileSync that throws leaves the old content or a truncated file;
\* writeNewsJson rethrows and main() rejects.
writeAndReport ==
  /\ pc = "write"
  /\ IF shouldWrite(newItems)
     THEN /\ writes' = writes + 1
          /\ \/ /\ file' = [kind |-> "ok", recs |-> updatedNews(existingNews, newItems)]
                /\ summary' = TRUE
                /\ total' = Len(updatedNews(existingNews, newItems))
                /\ pc' = "done"
                /\ exitCode' = 0
                /\ stderr' = stderr
             \/ /\ file' \in {file, [kind |-> "corrupt", recs |-> <<>>]}
                /\ summary' = summary
                /\ total' = total
                /\ pc' = "aborted"
                /\ exitCode' = 0
                /\ stderr' = Append(stderr, "Error writing news.json")
     ELSE /\ summary' = TRUE
          /\ total' = Len(existingNews)
          /\ pc' = "done"
          /\ exitCode' = 0
          /\ UNCHANGED <<file, writes, stderr>>
  /\ slept' = 0
  /\ UNCHANGED <<archiveVars, others, gaveUp, argv, file0, existingNews, newItems, addedCount, skippedCount,
                 results, browser, idx, attempt, kind, checked, failLog, reads,
                 attempts, returned, blocked, selector, scrapedItems, page>>

Next ==
  \/ parseArgs
  \/ readNewsJson
  \/ launch
  \/ beginTarget
  \/ webAttemptFails
  \/ webAttemptReturns
  \/ twitterAttemptReturns
  \/ sleepBetweenTargets
  \/ closeBrowser
  \/ writeAndReport

Spec == Init /\ [][Next]_vars

\* The record a second run of the monitor, started for another source, admits
ForeignRecord ==
  NewsItem(<<"other", 1>>, "Anthropic", <<"b", "!">>, 1, "https://www.anthropic.com/news/1")

IsCurrent(r) == r.date # 0

\* Another process replaces news.json after this run has read it and before
\* it has written: a second monitor run appends the record it admitted, or
\* the archival script writes back the records that are not old
otherWriter ==
  /\ pc \in {"launch", "loop", "scrape", "sleep", "write"}
  /\ Len(others) < MaxOthers
  /\ file.kind \in {"ok", "absent"}
  /\ \E recs \in { updatedNews(file.recs, <<ForeignRecord>>), SelectSeq(file.recs, IsCurrent) } :
       /\ recs # file.recs
       /\ file' = [kind |-> "ok", recs |-> recs]
       /\ others' = Append(others, recs)
  /\ UNCHANGED <<archiveVars, argv, file0, pc, exitCode, existingNews, newItems, addedCount,
                 skippedCount, results, browser, idx, attempt, kind, checked, failLog,
                 gaveUp, stderr, summary, reads, writes, attempts, returned, blocked,
                 slept, selector, scrapedItems, page, total>>

\* The command lines of the runs that share news.json with other writers:
\* every mode, one target
RaceInit ==
  /\ argv \in [source : Sources,
               name : {"OpenAI"},
               urls : { <<u>> : u \in Urls },
               selector : {""},
               bareUrl : {FALSE}]
  /\ Start

RaceNext == Next \/ otherWriter

\* Runs during which other processes write news.json
RaceSpec == RaceInit /\ [][RaceNext]_vars

\* main() is one sequential async function: every await it reaches settles
\* (goto and waitForSelector carry timeouts, sleep is a timer), so a run
\* that can take a step eventually takes one
FairSpec == Spec /\ WF_vars(Next)

\* The runs on one target
TargetSpec == TargetInit /\ [][Next]_vars

\* Runs over the markup page and the profile page
PageSpec == PageInit /\ [][Next]_vars

\* ------------------------------------------------ archive-old-news.ts
\* new Date(item.date).getTime() of a date string that does not parse
NaN == -1

\* The day the archival job runs, on the scale of the record dates
ArchiveNow == 32

\* getArchiveThresholdDate: midnight, ARCHIVE_DAYS days before the job runs
getArchiveThresholdDate == ArchiveNow - ARCHIVE_DAYS

\* Variant of earlier in which an instant is earlier than itself
earlierOrEqual(a, b) == a # NaN /\ b # NaN /\ a <= b

\* itemDate < threshold: a comparison with an invalid Date is false
earlier(a, b) == a # NaN /\ b # NaN /\ a < b

RECURSIVE identifyFrom(_, _, _, _, _)
\* The loop of identifyOldEntries from item i on
identifyFrom(items, threshold, i, old, current) ==
  IF i > Len(items)
  THEN [old |-> old, current |-> current]
  ELSE IF earlier(items[i].date, threshold)
       THEN identifyFrom(items, threshold, i + 1, Append(old, items[i]), current)
       ELSE identifyFrom(items, threshold, i + 1, old, Append(current, items[i]))

identifyOldEntries(items, threshold) == identifyFrom(items, threshold, 1, <<>>, <<>>)

\* Variant of nothingToArchive that never stops the job
nothingToArchiveNever(old) == FALSE

\* old.length === 0: main returns before it writes
nothingToArchive(old) == Len(old) = 0

\* existingArchive.map(item => item.id)
existingIds(archive) == { archive[k].id : k \in 1..Len(archive) }

\* old.filter(item => !existingIds.has(item.id))
newArchiveItems(old, archive) ==
  LET IsNew(item) == item.id \notin existingIds(archive)
  IN SelectSeq(old, IsNew)

\* The place a record takes in a list ordered newest first: behind every
\* record that is not older than it (Array.prototype.sort is stable)
insertNewestFirst(sorted, item) ==
  LET NotOlder(k) == sorted[k].date >= item.date
      n == Cardinality({ k \in 1..Len(sorted) : \A j \in 1..k : NotOlder(j) })
  IN SubSeq(sorted, 1, n) \o <<item>> \o SubSeq(sorted, n + 1, Len(sorted))

RECURSIVE sortNewestFirst(_)
\* updatedArchive.sort((a, b) => new Date(b.date) - new Date(a.date))
sortNewestFirst(recs) ==
  IF recs = <<>>
  THEN <<>>
  ELSE insertNewestFirst(sortNewestFirst(SubSeq(recs, 1, Len(recs) - 1)), recs[Len(recs)])

\* [...existingArchive, ...newArchiveItems], sorted
updatedArchive(old, archive) == sortNewestFirst(archive \o newArchiveItems(old, archive))

\* readJsonFile: an absent file and a failed read both give []
readJsonFile(f) == IF f.kind = "ok" THEN f.recs ELSE <<>>

\* The records the archival job can find in news.json: two aged records of
\* different days, a record of the threshold day and a record whose date
\* does not parse
ArchiveRecords ==
  { OldRecord(1),
    NewsItem(<<"old", 3>>, "OpenAI", <<"b", "!">>, 1, "https://openai.com/news/3"),
    NewsItem(<<"old", 4>>, "OpenAI", <<"A">>, getArchiveThresholdDate, "https://openai.com/news/4"),
    NewsItem(<<"old", 5>>, "OpenAI", <<"B">>, NaN, "https://openai.com/news/5") }

\* A record an earlier job archived
ArchivedRecord ==
  NewsItem(<<"old", 2>>, "OpenAI", <<"b">>, 0, "https://openai.com/news/2")

\* news.json and news-archive.json as the job finds them: news.json absent,
\* unreadable or holding distinct records; the archive absent, unreadable,
\* empty, or holding a record of an earlier job, which news.json may hold again
ArchiveInit ==
  /\ argv = [source |-> "web", name |-> "OpenAI", urls |-> <<>>, selector |-> "",
             bareUrl |-> FALSE]
  /\ file \in { [kind |-> "absent", recs |-> <<>>], [kind |-> "corrupt", recs |-> <<>>] }
              \cup { [kind |-> "ok", recs |-> s] :
                       s \in { l \in SeqsOf(ArchiveRecords, 0, MaxNews) :
                                 \A i, j \in 1..Len(l) : i # j => l[i] # l[j] } }
  /\ Locals
  /\ archiveFile \in { [kind |-> "absent", recs |-> <<>>],
                       [kind |-> "corrupt", recs |-> <<>>],
                       [kind |-> "ok", recs |-> <<>>],
                       [kind |-> "ok", recs |-> <<ArchivedRecord>>],
                       [kind |-> "ok", recs |-> <<OldRecord(1)>>] }
  /\ archiveFile0 = archiveFile
  /\ archivePc = "readNews"
  /\ currentNews = <<>>
  /\ existingArchive = <<>>
  /\ written = <<>>

\* What main() of monitor.ts owns, apart from news.json
monitorVars == <<argv, file0, pc, exitCode, existingNews, newItems, addedCount,
                 skippedCount, results, browser, idx, attempt, kind, checked, failLog,
                 gaveUp, stderr, summary, reads, writes, attempts, returned, blocked,
                 slept, selector, scrapedItems, page, others, total>>

\* const currentNews = readJsonFile(NEWS_JSON_PATH)
archiveReadNews ==
  /\ archivePc = "readNews"
  /\ currentNews' = readJsonFile(file)
  /\ archivePc' = "readArchive"
  /\ UNCHANGED <<monitorVars, file, archiveFile, archiveFile0, existingArchive, written>>

\* const existingArchive = readJsonFile(ARCHIVE_JSON_PATH)
archiveReadArchive ==
  /\ archivePc = "readArchive"
  /\ existingArchive' = readJsonFile(archiveFile)
  /\ archivePc' = "identify"
  /\ UNCHANGED <<monitorVars, file, archiveFile, archiveFile0, currentNews, written>>

\* identifyOldEntries and the early return
archiveIdentify ==
  /\ archivePc = "identify"
  /\ archivePc' = IF nothingToArchive(identifyOldEntries(currentNews, getArchiveThresholdDate).old)
                  THEN "done"
                  ELSE "writeNews"
  /\ UNCHANGED <<monitorVars, file, archiveFile, archiveFile0, currentNews,
                 existingArchive, written>>

\* writeJsonFile(NEWS_JSON_PATH, current): a failed write leaves the file as
\* it was or cut short, and the rethrown error ends the process with status 1
archiveWriteNews ==
  /\ archivePc = "writeNews"
  /\ \/ /\ file' = [kind |-> "ok",
                    recs |-> identifyOldEntries(currentNews, getArchiveThresholdDate).current]
        /\ written' = Append(written, "news.json")
        /\ archivePc' = "writeArchive"
     \/ /\ file' \in {file, [kind |-> "corrupt", recs |-> <<>>]}
        /\ written' = written
        /\ archivePc' = "failed"
  /\ UNCHANGED <<monitorVars, archiveFile, archiveFile0, currentNews, existingArchive>>

\* writeJsonFile(ARCHIVE_JSON_PATH, updatedArchive) and the summary
archiveWriteArchive ==
  /\ archivePc = "writeArchive"
  /\ \/ /\ archiveFile' =
             [kind |-> "ok",
              recs |-> updatedArchive(identifyOldEntries(currentNews, getArchiveThresholdDate).old,
                                      existingArchive)]
        /\ written' = Append(written, "news-archive.json")
        /\ archivePc' = "done"
     \/ /\ archiveFile' \in {archiveFile, [kind |-> "corrupt", recs |-> <<>>]}
        /\ written' = written
        /\ archivePc' = "failed"
  /\ UNCHANGED <<monitorVars, file, archiveFile0, currentNews, existingArchive>>

\* The process is killed while main() is running
archiveKilled ==
  /\ archivePc \in {"readNews", "readArchive", "identify", "writeNews", "writeArchive"}
  /\ archivePc' = "killed"
  /\ UNCHANGED <<monitorVars, file, archiveFile, archiveFile0, currentNews,
                 existingArchive, written>>

ArchiveNext ==
  \/ archiveReadNews
  \/ archiveReadArchive
  \/ archiveIdentify
  \/ archiveWriteNews
  \/ archiveWriteArchive
  \/ archiveKilled

\* One archival job, with no monitor run beside it
ArchiveSpec == ArchiveInit /\ [][ArchiveNext]_vars

\* ----------------------------------------------------------- properties
\* The working set a candidate line was decided against: the records read
\* at the start followed by the records admitted before it
WorkingSet(line) == existingNews \o SubSeq(newItems, 1, line.before)

\* The lines of the candidates that were admitted, in order
IsAdmitted(line) == line.admitted
AdmittedLines == SelectSeq(checked, IsAdmitted)

\* A store gateway error was reported
StoreError ==
  \E i \in 1..Len(stderr) :
    stderr[i] \in {"Error reading news.json", "Error writing news.json"}

\* C1 (as claimed): a store that satisfied I1 before the run satisfies it
\* after the run: no two records with titles equal ignoring case, no two
\* with the same url.
C1_StoreUniqueAfterRun ==
  (pc = "done" /\ StoreUnique(file0.recs)) => StoreUnique(file.recs)

\* C2 (as claimed): a candidate is rejected exactly when its
\* whitespace-normalized title equals, ignoring case, the title of a record
\* of the working set, or its link equals the url of such a record.
C2_NormalizedDecision ==
  \A i \in 1..Len(checked) :
    checked[i].admitted <=>
      ~ \E k \in 1..Len(WorkingSet(checked[i])) :
          \/ toLowerCase(cleanTitle(checked[i].title))
               = toLowerCase(WorkingSet(checked[i])[k].title)
          \/ checked[i].url = WorkingSet(checked[i])[k].url

\* C3 (as claimed): of two candidates of one run with the same title modulo
\* case, or the same link, the later one is rejected once the earlier one
\* was admitted, and every rejected candidate is counted as skipped.
C3_SameRunFirstOnly ==
  /\ \A i, j \in 1..Len(checked) :
       ( /\ i < j
         /\ checked[i].admitted
         /\ \/ toLowerCase(checked[i].title) = toLowerCase(checked[j].title)
            \/ checked[i].url = checked[j].url )
       => ~checked[j].admitted
  /\ skippedCount = Len(checked) - Len(AdmittedLines)

\* C4 (as claimed): when every candidate of the run matches a record of the
\* store file (title equal ignoring case, or same url), nothing is admitted,
\* nothing is written and the file is unchanged.
C4_Idempotent ==
  ( /\ pc = "done"
    /\ \A i \in 1..Len(checked) :
         \E k \in 1..Len(file0.recs) :
           \/ toLowerCase(checked[i].title) = toLowerCase(file0.recs[k].title)
           \/ checked[i].url = file0.recs[k].url )
  => (newItems = <<>> /\ writes = 0 /\ file = file0)

C6_NoLoss ==
  pc = "done" =>
    \A i \in 1..Len(file0.recs) :
      \E j \in 1..Len(file.recs) : file.recs[j] = file0.recs[i]

\* C7 (as claimed): after a failed read or write of the store file nothing
\* is scraped, no summary is printed and the process ends with a non-zero
\* status.
C7_StoreErrorsFatal ==
  StoreError =>
    /\ pc \notin {"scrape", "sleep"}
    /\ ~summary
    /\ Terminated => exitCode # 0

\* C8: the store file is read once, before the first target; it is written
\* at most once, after every target has its outcome and the browser is
\* closed; until then the file is as it was at the start.
C8_StoreAccessProtocol ==
  /\ reads <= 1
  /\ writes <= 1
  /\ (pc \notin {"parseArgs", "readNewsJson", "exited"}) => reads = 1
  /\ (results # <<>> \/ idx > 1 \/ pc \in {"scrape", "sleep"}) => reads = 1
  /\ writes = 1 => /\ idx > Len(argv.urls)
                   /\ Len(results) = Len(argv.urls)
                   /\ browser = "closed"
                   /\ pc \in {"done", "aborted"}
  /\ writes = 0 => file = file0

C8_Witness ==
  /\ pc = "done"
  /\ reads = 1
  /\ writes = 1
  /\ Len(argv.urls) = MaxTargets
  /\ file # file0

\* C9: a run that admitted nothing does not write the store file; a write
\* happens only when a record was admitted.
C9_NoWriteWithoutAdmission ==
  /\ writes > 0 => Len(newItems) > 0
  /\ (Terminated /\ newItems = <<>>) => (writes = 0 /\ file = file0)

C9_Witness ==
  /\ pc = "done"
  /\ newItems = <<>>
  /\ skippedCount > 0
  /\ gaveUp # {}
  /\ file0.kind = "ok"

AllThrew == \A i \in 1..Len(attempts) : attempts[i] = "threw"

\* C11 (as claimed): scrapeWithRetry calls fn at most MAX_RETRIES times; it
\* returns the value of the first call that does not throw and calls fn no
\* more after it; it returns null exactly when all MAX_RETRIES calls threw;
\* no exception of fn leaves it.
C11_RetryOutcome ==
  /\ Len(attempts) <= MAX_RETRIES
  /\ returned # "none" =>
       /\ pc # "scrape"
       /\ \A i \in 1..(Len(attempts) - 1) : attempts[i] = "threw"
       /\ attempts[Len(attempts)] # "threw" => returned = attempts[Len(attempts)]
       /\ returned = "null" <=> (Len(attempts) = MAX_RETRIES /\ AllThrew)
  /\ pc = "aborted" => attempts = <<>>

\* C11 (amended): scrapeWithRetry calls fn at most MAX_RETRIES times; it
\* returns the value of the first call that does not throw and calls fn no
\* more after it; it returns null when all MAX_RETRIES calls threw, and also
\* when the first call that did not throw returned null itself; no
\* exception of fn leaves it.
C11_RetryOutcomeAmended ==
  /\ Len(attempts) <= MAX_RETRIES
  /\ returned # "none" =>
       /\ pc # "scrape"
       /\ \A i \in 1..(Len(attempts) - 1) : attempts[i] = "threw"
       /\ attempts[Len(attempts)] # "threw" => returned = attempts[Len(attempts)]
       /\ attempts[Len(attempts)] = "threw" =>
            (Len(attempts) = MAX_RETRIES /\ returned = "null")
       /\ returned = "null" <=>
            \/ Len(attempts) = MAX_RETRIES /\ AllThrew
            \/ attempts[Len(attempts)] = "null"
  /\ (pc = "scrape" /\ attempts # <<>>) => (AllThrew /\ Len(attempts) < MAX_RETRIES)
  /\ pc = "aborted" => attempts = <<>>

C11_Witness ==
  /\ pc = "sleep"
  /\ returned = "null"
  /\ Len(attempts) = MAX_RETRIES
  /\ AllThrew
  /\ idx = 2

\* C12: nothing is slept before attempt 1; the k-th failed attempt is
\* followed by a sleep of RETRY_DELAY_MS * 2^(k-1) milliseconds (2000, then
\* 4000) when k < MAX_RETRIES, and attempt k+1 starts right after that
\* sleep; the last failed attempt is followed by no sleep.
C12_BackoffSchedule ==
  /\ \A k \in 1..Len(failLog) :
       /\ failLog[k].attempt = k
       /\ k < MAX_RETRIES => failLog[k].slept = RETRY_DELAY_MS * 2 ^ (k - 1)
       /\ k = 1 => failLog[k].slept = 2000
       /\ k = 2 => failLog[k].slept = 4000
       /\ k = MAX_RETRIES => failLog[k].slept = 0
  /\ pc = "scrape" =>
       /\ Len(failLog) = attempt - 1
       /\ slept = IF attempt = 1 THEN 0 ELSE failLog[attempt - 1].slept
  /\ (pc = "sleep" /\ Len(failLog) = MAX_RETRIES) => slept = 0

C12_Witness ==
  /\ pc = "scrape"
  /\ attempt = MAX_RETRIES
  /\ Len(failLog) = 2
  /\ failLog[1].slept = 2000
  /\ slept = 4000

\* What the duplicate check makes of the items of a page in the current
\* state of the run
Admission(items) ==
  mergeItems(items, 1,
             [newItems |-> newItems, added |-> addedCount,
              skipped |-> skippedCount, checked |-> checked],
             existingNews, argv.name, idx)

\* C13: an attempt of a web target that throws admits nothing and submits
\* nothing to the duplicate check; when the third attempt returns after two
\* that threw, the items it returns are submitted to the duplicate check in
\* order, decided against the working set and counted exactly as the items
\* of a first attempt are, and the target's result carries their texts.
C13_RecoveryAdmitsNormally ==
  /\ [][ (pc = "scrape" /\ kind = "web" /\ Len(failLog') > Len(failLog)) =>
           /\ newItems' = newItems
           /\ checked' = checked
           /\ addedCount' = addedCount
           /\ skippedCount' = skippedCount ]_vars
  /\ [][ (pc = "scrape" /\ kind = "web" /\ attempt = MAX_RETRIES /\ returned' = "value") =>
           /\ attempts' = <<"threw", "threw", "value">>
           /\ newItems' = Admission(scrapedItems').newItems
           /\ checked' = Admission(scrapedItems').checked
           /\ addedCount' = Admission(scrapedItems').added
           /\ skippedCount' = Admission(scrapedItems').skipped
           /\ Len(checked') = Len(checked) + Len(scrapedItems')
           /\ results'[Len(results')].content
                = [i \in 1..Len(scrapedItems') |-> scrapedItems'[i].text]
           /\ \A i \in (Len(checked) + 1)..Len(checked') :
                /\ checked'[i].target = idx
                /\ checked'[i].admitted
                     <=> ~isDuplicate(existingNews \o SubSeq(newItems', 1, checked'[i].before),
                                      checked'[i].title, checked'[i].url) ]_vars

C13_Witness ==
  /\ pc = "sleep"
  /\ attempts = <<"threw", "threw", "value">>
  /\ \E i \in 1..Len(checked) : checked[i].target = idx /\ checked[i].admitted
  /\ \E i \in 1..Len(checked) : checked[i].target = idx /\ ~checked[i].admitted

\* C14 (as claimed): when an attempt on a twitter target ends in a timeout
\* of the wait for the post container and attempts remain, the executor
\* makes another attempt on the same target.
C14_SocialTimeoutRetried ==
  [][ (pc = "scrape" /\ kind = "twitter" /\ ~blocked /\ blocked'
         /\ attempt < MAX_RETRIES) =>
        (pc' = "scrape" /\ attempt' = attempt + 1 /\ idx' = idx) ]_vars

\* No entry of the domain table matches the url
NoTableEntry(url) ==
  \A i \in 1..Len(DEFAULT_SELECTORS) : ~includes(url, DEFAULT_SELECTORS[i].domain)

\* C15: a web-classified target with no explicit selector and no matching
\* table entry is not scraped (no attempt is made); its result is pushed at
\* once with error 'Missing selector' and no content; nothing is submitted
\* to the duplicate check or admitted for it; and the loop goes on with the
\* next target.
C15_MissingSelector ==
  /\ [][ ( /\ pc = "loop"
           /\ idx <= Len(argv.urls)
           /\ currentSource(argv.source, argv.urls[idx]) = "web"
           /\ argv.selector = ""
           /\ NoTableEntry(argv.urls[idx]) ) =>
         ( /\ pc' = "loop"
           /\ idx' = idx + 1
           /\ attempt' = 0
           /\ attempts' = <<>>
           /\ results' = Append(results, results'[Len(results')])
           /\ results'[Len(results')].url = argv.urls[idx]
           /\ results'[Len(results')].error = "Missing selector"
           /\ ~results'[Len(results')].hasContent
           /\ newItems' = newItems
           /\ checked' = checked
           /\ addedCount' = addedCount
           /\ skippedCount' = skippedCount ) ]_vars
  /\ [] ( \A i \in 1..Len(results) :
            results[i].error = "Missing selector" =>
              /\ i \notin gaveUp
              /\ \A k \in 1..Len(checked) : checked[k].target # i )
  /\ [] ( pc = "done" => Len(results) = Len(argv.urls) )

C15_Witness ==
  /\ pc = "done"
  /\ Len(results) = 2
  /\ results[1].error = "Missing selector"
  /\ results[2].hasContent
  /\ \E k \in 1..Len(checked) : checked[k].target = 2 /\ checked[k].admitted

\* C16 (as claimed): whenever the loop passes from one target to the next,
\* whatever became of the first (content, no content, given up, missing
\* selector), the step that ends its iteration sleeps TARGET_DELAY_MS
\* milliseconds.
C16_InterTargetDelay ==
  [][ (idx' = idx + 1 /\ idx' <= Len(argv.urls)) => slept' = TARGET_DELAY_MS ]_vars

\* The command line lacks a valid --source, a --name, or a --url with a value
ArgsRejected ==
  \/ argv.source \notin {"web", "twitter", "mixed"}
  \/ argv.name = ""
  \/ argv.urls = <<>>
  \/ argv.bareUrl

\* C17 (as claimed): a run whose --source is absent or not web, twitter or
\* mixed, whose --name is absent, or whose --url is absent or has no value
\* never reads the store, launches the browser or scrapes, and ends with a
\* non-zero status.
C17_ValidationPrecedesEffects ==
  ArgsRejected =>
    /\ pc \in {"parseArgs", "exited"}
    /\ reads = 0
    /\ writes = 0
    /\ browser = "null"
    /\ attempts = <<>>
    /\ results = <<>>
    /\ pc = "exited" => exitCode # 0

\* main() was rejected by the browser (launch, newContext, newPage, close)
\* or by the write of the store file
RunRejected ==
  \E i \in 1..Len(stderr) :
    stderr[i] \in {"launch failed", "close failed", "Error writing news.json"}

Remaining ==
  LET left == Len(argv.urls) - idx
      perTarget == MAX_RETRIES + 2
  IN CASE pc = "parseArgs" -> perTarget * Len(argv.urls) + 5
       [] pc = "readNewsJson" -> perTarget * Len(argv.urls) + 4
       [] pc = "launch" -> perTarget * Len(argv.urls) + 3
       [] pc = "loop" -> perTarget * (left + 1) + 2
       [] pc = "scrape" -> perTarget * left + 3 + (MAX_RETRIES + 1 - attempt)
       [] pc = "sleep" -> perTarget * left + 3
       [] pc = "write" -> 1
       [] OTHER -> 0

\* C18 (amended), the conclusion: under weak fairness of the run's steps,
\* every run that passes argument validation eventually prints the final
\* summary or is rejected by the browser or by the write of the store.
C18_Eventually ==
  (pc = "readNewsJson") ~> (summary \/ RunRejected)

hostOf(url) ==
  LET from == 3 + CHOOSE i \in 1..Len(url) :
                    /\ SubSeq(url, i, i + 2) = "://"
                    /\ \A j \in 1..(i - 1) : SubSeq(url, j, j + 2) # "://"
      stops == { i \in from..Len(url) : SubSeq(url, i, i) \in {"/", "?", "#"} }
      to == IF stops = {} THEN Len(url)
            ELSE (CHOOSE i \in stops : \A j \in stops : i <= j) - 1
  IN SubSeq(url, from, to)

\* host is the domain itself or one of its subdomains
IsHostOf(host, domain) ==
  \/ host = domain
  \/ /\ Len(host) > Len(domain)
     /\ SubSeq(host, Len(host) - Len(domain), Len(host)) = "." \o domain

\* C19 (as claimed): in mode web or twitter every target has the kind of
\* the mode; in mode mixed a target is social exactly when the host of its
\* url is twitter.com or x.com (or a subdomain of one), and web otherwise.
C19_Classification ==
  \A i \in 1..Len(results) :
    results[i].source =
      IF argv.source # "mixed" THEN argv.source
      ELSE IF \/ IsHostOf(hostOf(argv.urls[i]), "twitter.com")
              \/ IsHostOf(hostOf(argv.urls[i]), "x.com")
           THEN "twitter"
           ELSE "web"

C21_NonEmptyTitles ==
  /\ \A k \in 1..Len(newItems) : newItems[k].title # <<>>
  /\ \A j \in 1..Len(checked) : ~IsBlank(checked[j].title)

\* The elements of the page that scrapeWeb turned into items, in document order
NonBlank(e) == ~IsBlank(e.text)

Kept == SelectSeq(page, NonBlank)

\* A web attempt has returned and its items have gone through the duplicate check
WebReturned == pc = "sleep" /\ kind = "web" /\ returned = "value"

\* The element has no href of its own, no anchor around or inside it, and no id
NoHrefNoId(e) == e.href = "" /\ e.ancestor = "" /\ e.inner = "" /\ e.id = ""

FoundHref(e) == IF e.href # "" THEN e.href ELSE e.inner

\* C23: an element whose href cannot be parsed does not fail the attempt: the
\* attempt returns one item per non-blank element, with no failure logged for
\* it, and the item of that element carries the page url plus a fragment,
\* never the raw href.
C23_UnparseableHref ==
  WebReturned =>
    /\ Len(scrapedItems) = Len(Kept)
    /\ attempts[Len(attempts)] = "value"
    /\ Len(failLog) = Len(attempts) - 1
    /\ \A i \in 1..Len(Kept) :
         FoundHref(Kept[i]) \in InvalidHrefs =>
           /\ scrapedItems[i].link # FoundHref(Kept[i])
           /\ scrapedItems[i].link \in
                { argv.urls[idx] \o "#" \o Kept[i].id,
                  argv.urls[idx] \o "#" \o concat(slugify(Kept[i].text)) }
           /\ checked[Len(checked) - Len(Kept) + i].url = scrapedItems[i].link

\* C23 witness: a first attempt met an element with an unparseable href and
\* its candidate was admitted under the page url plus the slug of its title.
C23_Witness ==
  /\ WebReturned
  /\ attempts = <<"value">>
  /\ \E i \in 1..Len(Kept) :
       /\ Kept[i].href \in InvalidHrefs
       /\ Kept[i].id = ""
       /\ checked[i].admitted
       /\ checked[i].url = argv.urls[idx] \o "#" \o concat(slugify(Kept[i].text))

\* C30: the link of an element comes from its own href, else from the
\* enclosing anchor, else from an anchor inside it; the page url plus a
\* fragment is used only when none of the three yields a link.
C30_LinkLookupOrder ==
  WebReturned =>
    \A i \in 1..Len(Kept) :
      LET e == Kept[i]
          found == IF e.href # "" THEN e.href
                   ELSE IF e.ancestor # "" THEN e.ancestor
                   ELSE e.inner
      IN IF found # "" /\ found \notin InvalidHrefs
         THEN scrapedItems[i].link = resolveLink(found, argv.urls[idx])
         ELSE SubSeq(scrapedItems[i].link, 1, Len(argv.urls[idx]) + 1) = argv.urls[idx] \o "#"

\* A social attempt has returned a post and it has gone through the duplicate check
TwitterReturned == pc = "sleep" /\ kind = "twitter" /\ returned = "value"

\* Positions of the posts of the page that carry the "Pinned" label
PinnedAt == { i \in 1..Len(page) : page[i].pinned }

\* C28: the candidate of a social target is the first pinned post of the page
\* when the page has one, even if other posts precede it, else the first
\* post; a social target submits at most one candidate.
C28_PostSelection ==
  /\ TwitterReturned =>
       LET chosen == IF PinnedAt # {}
                     THEN page[CHOOSE i \in PinnedAt : \A j \in PinnedAt : i <= j]
                     ELSE page[1]
           line == checked[Len(checked)]
       IN /\ line.target = idx
          /\ line.title = tweetTitle(chosen.text)
          /\ line.url = IF chosen.href # "" THEN "https://x.com" \o chosen.href
                        ELSE argv.urls[idx]
          /\ results[idx].content = <<chosen.text>>
  /\ \A t \in 1..Len(argv.urls) :
       currentSource(argv.source, argv.urls[t]) = "twitter" =>
         Cardinality({ j \in 1..Len(checked) : checked[j].target = t }) <= 1

\* C28 witness: the page showed an unpinned post followed by a pinned post
\* with another text and another status link, and the pinned one was admitted.
C28_Witness ==
  /\ TwitterReturned
  /\ Len(page) = 2
  /\ ~page[1].pinned /\ page[2].pinned
  /\ page[1].text # page[2].text
  /\ page[2].href # "" /\ page[1].href = ""
  /\ checked[Len(checked)].admitted
  /\ newItems[Len(newItems)].title = cleanTitle(page[2].text)

\* C29: a selected post without a status link is submitted under the
\* requested url; when the store the run read already holds a record with
\* that url, the post is rejected whatever its text.
C29_ProfileUrlFallback ==
  TwitterReturned /\ selectTweet(page).href = "" =>
    LET line == checked[Len(checked)]
    IN /\ line.url = argv.urls[idx]
       /\ (\E k \in 1..Len(existingNews) : existingNews[k].url = argv.urls[idx])
            => ~line.admitted

\* C29 witness: the store held a record under the profile url; a post with
\* another title and no status link was rejected and nothing was admitted.
C29_Witness ==
  /\ TwitterReturned
  /\ selectTweet(page).href = ""
  /\ \E k \in 1..Len(existingNews) : existingNews[k].url = argv.urls[idx]
  /\ \A k \in 1..Len(existingNews) :
       toLowerCase(existingNews[k].title) # toLowerCase(cleanTitle(selectTweet(page).text))
  /\ ~checked[Len(checked)].admitted
  /\ newItems = <<>>

\* C26: the set a candidate is compared with holds the records read from the
\* store and the records admitted before it, never a rejected candidate: a
\* candidate that matches none of those records is admitted, whatever
\* rejected candidates came before it.
C26_RejectedNotRemembered ==
  \A j \in 1..Len(checked) :
    /\ checked[j].before = Cardinality({ i \in 1..(j - 1) : checked[i].admitted })
    /\ (~ \E k \in 1..Len(WorkingSet(checked[j])) :
            \/ toLowerCase(cleanTitle(checked[j].title))
                 = toLowerCase(WorkingSet(checked[j])[k].title)
            \/ checked[j].url = WorkingSet(checked[j])[k].url)
         => checked[j].admitted

\* C26 witness: a candidate was rejected for its title; a later candidate
\* with the same link and another title was admitted.
C26_Witness ==
  \E i, j \in 1..Len(checked) :
    /\ i < j
    /\ ~checked[i].admitted
    /\ checked[j].url = checked[i].url
    /\ toLowerCase(cleanTitle(checked[j].title)) # toLowerCase(cleanTitle(checked[i].title))
    /\ checked[j].admitted

\* C27: every admitted record has the fields id, source, title, date and url
\* only; source is the --name argument, title is the candidate's title with
\* runs of whitespace collapsed to one space and the ends trimmed, url is the
\* candidate's link.
C27_RecordConstruction ==
  /\ Len(newItems) = Len(AdmittedLines)
  /\ \A k \in 1..Len(newItems) :
       LET r == newItems[k]
           line == AdmittedLines[k]
       IN /\ DOMAIN r = {"id", "source", "title", "date", "url"}
          /\ r.source = argv.name
          /\ r.url = line.url
          /\ r.title = cleanTitle(line.title)
          /\ \A i \in 1..Len(r.title) :
               /\ IsSpace(r.title[i]) => r.title[i] = " " /\ 1 < i /\ i < Len(r.title)
               /\ i > 1 => ~(IsSpace(r.title[i]) /\ IsSpace(r.title[i - 1]))

\* C27 witness: a candidate whose title held a run of whitespace was admitted
\* and written with the run collapsed.
C27_Witness ==
  /\ pc = "done"
  /\ writes = 1
  /\ \E k \in 1..Len(AdmittedLines) :
       /\ AdmittedLines[k].title = <<"A", " ", "\n", "b">>
       /\ file.recs[Len(existingNews) + k].title = <<"A", " ", "b">>
       /\ file.recs[Len(existingNews) + k].source = "OpenAI"

\* C25: targets are processed one at a time in the order of the command
\* line: the outcomes are those of the first targets, in order, and an
\* attempt runs only when every earlier target has its outcome; the
\* candidates of a page are submitted in document order; the admitted records
\* are written after the records read, in the order in which their candidates
\* were submitted.
C25_SequentialOrdered ==
  /\ Len(results) <= Len(argv.urls)
  /\ \A i \in 1..Len(results) : results[i].url = argv.urls[i]
  /\ pc = "scrape" => Len(results) = idx - 1 /\ attempt >= 1
  /\ pc = "sleep" => Len(results) = idx
  /\ \A i, j \in 1..Len(checked) : i < j => checked[i].target <= checked[j].target
  /\ \A j \in 1..Len(checked) : checked[j].target <= Len(results)
  /\ WebReturned =>
       /\ Len(checked) >= Len(Kept)
       /\ \A i \in 1..Len(Kept) :
            LET line == checked[Len(checked) - Len(Kept) + i]
            IN /\ line.target = idx
               /\ line.title = trim(Kept[i].text)
               /\ line.url = elementLink(Kept[i], argv.urls[idx])
  /\ (pc = "done" /\ writes > 0) =>
       /\ Len(file.recs) = Len(existingNews) + Len(AdmittedLines)
       /\ \A k \in 1..Len(AdmittedLines) :
            /\ file.recs[Len(existingNews) + k].url = AdmittedLines[k].url
            /\ file.recs[Len(existingNews) + k].title = cleanTitle(AdmittedLines[k].title)

\* C25 witness: two targets each gave one admitted candidate with another
\* title and link, and the store holds the record of the first target before
\* the record of the second.
C25_Witness ==
  /\ pc = "done"
  /\ writes = 1
  /\ Len(argv.urls) = 2
  /\ Len(checked) = 2
  /\ checked[1].target = 1 /\ checked[2].target = 2
  /\ checked[1].admitted /\ checked[2].admitted
  /\ checked[1].url # checked[2].url
  /\ file.recs[Len(existingNews) + 1].url = checked[1].url
  /\ file.recs[Len(existingNews) + 2].url = checked[2].url

Records(recs) == { recs[i] : i \in 1..Len(recs) }

C24_ArchivedReappears ==
  /\ pc = "done"
  /\ writes = 1
  /\ Len(others) = 1
  /\ OldRecord(1) \notin Records(others[1])
  /\ OldRecord(1) \in Records(file.recs)

\* Strings of the boilerplate denylist, among the texts of the model: the
\* text of a "404" page
BoilerplateDenylist == { <<"4", "0", "4">> }

\* text contains a string of the denylist
ContainsBoilerplate(text) ==
  \E d \in BoilerplateDenylist :
    \E i \in 1..(Len(text) - Len(d) + 1) : SubSeq(text, i, i + Len(d) - 1) = d

\* C31: no candidate submitted to the duplicate check and no admitted record
\* has a normalized title that contains a string of the boilerplate denylist.
C31_BoilerplateFiltered ==
  /\ \A j \in 1..Len(checked) : ~ContainsBoilerplate(cleanTitle(checked[j].title))
  /\ \A k \in 1..Len(newItems) : ~ContainsBoilerplate(newItems[k].title)

\* What readNewsJson returns for the file as it is now
storeRead == IF file.kind = "ok" THEN file.recs ELSE <<>>

\* The candidate loop of a second run that extracts what this run extracted:
\* the same candidates, in the same order, against the records existing
RECURSIVE resubmit(_, _, _)
resubmit(i, st, existing) ==
  IF i > Len(checked) THEN st
  ELSE resubmit(i + 1,
                admitOrSkip(st, existing, argv.name, checked[i].title, checked[i].url,
                            checked[i].target),
                existing)

secondRun ==
  resubmit(1, [newItems |-> <<>>, added |-> 0, skipped |-> 0, checked |-> <<>>], storeRead)

C34_CounterConsistency ==
  /\ addedCount = Len(newItems)
  /\ addedCount = Cardinality({ j \in 1..Len(checked) : checked[j].admitted })
  /\ addedCount + skippedCount = Len(checked)
  /\ summary => total = Len(existingNews) + addedCount
  /\ ~summary => total = -1

\* C34 witness: a run that read one record admitted one candidate, rejected
\* another and reported a total of two.
C34_Witness ==
  /\ summary
  /\ Len(existingNews) = 1
  /\ addedCount = 1
  /\ skippedCount = 1
  /\ total = 2

\* The browser, its context or its page could not be created
LaunchFailed == \E i \in 1..Len(stderr) : stderr[i] = "launch failed"

RecordsOf(f) == { f.recs[k] : k \in 1..Len(f.recs) }

\* C37 (as claimed): at every moment of an archival job and after it, also
\* when a write fails or the process is killed between the two writes, every
\* record news.json held before the job is in news.json or in
\* news-archive.json.
C37_RecordsConserved ==
  archivePc # "idle" => RecordsOf(file0) \subseteq RecordsOf(file) \cup RecordsOf(archiveFile)

\* A record is aged when its date parses and lies strictly before the threshold
IsAged(r) == r.date # NaN /\ r.date < getArchiveThresholdDate

IsNotAged(r) == ~IsAged(r)

\* How often a record occurs in a list
Occurrences(recs, r) == Cardinality({ k \in 1..Len(recs) : recs[k] = r })

\* The records of a list keep the relative order they have in another list
\* of distinct records
KeepsOrder(part, items) ==
  \A i, j \in 1..Len(part) :
    i < j => \E m, n \in 1..Len(items) : m < n /\ items[m] = part[i] /\ items[n] = part[j]

\* C38: identifyOldEntries puts every record it is given in exactly one of
\* old and current, in the order of the input; a record is in old exactly
\* when its date is strictly before the threshold, and a record whose date
\* does not parse is in current. After a job that wrote both files news.json
\* holds exactly current, and every old record is in the archive once, also
\* when the archive already held a record with its id.
C38_ArchivalPartition ==
  archivePc \in {"readArchive", "identify", "writeNews", "writeArchive", "done", "failed", "killed"} =>
    LET parts == identifyOldEntries(currentNews, getArchiveThresholdDate)
    IN /\ Len(parts.old) + Len(parts.current) = Len(currentNews)
       /\ \A k \in 1..Len(currentNews) :
            /\ Occurrences(parts.old, currentNews[k]) + Occurrences(parts.current, currentNews[k]) = 1
            /\ Occurrences(parts.old, currentNews[k]) = 1 <=> IsAged(currentNews[k])
            /\ currentNews[k].date = NaN => Occurrences(parts.current, currentNews[k]) = 1
       /\ KeepsOrder(parts.old, currentNews)
       /\ KeepsOrder(parts.current, currentNews)
       /\ (archivePc = "done" /\ written = <<"news.json", "news-archive.json">>) =>
            /\ file = [kind |-> "ok", recs |-> SelectSeq(currentNews, IsNotAged)]
            /\ \A k \in 1..Len(currentNews) :
                 IsAged(currentNews[k]) =>
                   Cardinality({ m \in 1..Len(archiveFile.recs) :
                                   archiveFile.recs[m].id = currentNews[k].id }) = 1
            /\ RecordsOf(archiveFile0) \subseteq RecordsOf(archiveFile)
            /\ Len(archiveFile.recs)
                 = Len(existingArchive)
                   + Cardinality({ k \in 1..Len(currentNews) :
                                     /\ IsAged(currentNews[k])
                                     /\ currentNews[k].id \notin existingIds(existingArchive) })

\* C38 witness: news.json held an aged record that the archive already held
\* and a record whose date does not parse; the job wrote both files, the
\* second record stayed in news.json and the archive holds the first once.
C38_Witness ==
  /\ archivePc = "done"
  /\ written = <<"news.json", "news-archive.json">>
  /\ file0.recs = <<OldRecord(1), NewsItem(<<"old", 5>>, "OpenAI", <<"B">>, NaN, "https://openai.com/news/5")>>
  /\ archiveFile0.recs = <<OldRecord(1)>>
  /\ Len(file.recs) = 1
  /\ archiveFile.recs = <<OldRecord(1)>>

\* C39: a job that finds no aged record in news.json writes no file, and
\* news.json and news-archive.json stay as they were.
C39_NothingToArchive ==
  (archivePc # "idle" /\ \A k \in 1..Len(file0.recs) : ~IsAged(file0.recs[k])) =>
    /\ written = <<>>
    /\ file = file0
    /\ archiveFile = archiveFile0
    /\ archivePc \notin {"writeNews", "writeArchive", "failed"}

\* C39 witness: news.json held records, none of them aged; the job has
\* ended without a write.
C39_Witness ==
  /\ archivePc = "done"
  /\ file0.recs # <<>>
  /\ \A k \in 1..Len(file0.recs) : ~IsAged(file0.recs[k])
  /\ written = <<>>
  /\ file = file0
  /\ archiveFile = archiveFile0

====
